---- MODULE Spec2Model ----
(***************************************************************************)
(* Model of src/index.js: the two handler variants of the Mastodon RSS     *)
(* feed parser.  Variant 1 (lines 27-130) posts every new item once;       *)
(* variant 2 (lines 158-304) skips 'nocrosspost' items, cuts the content   *)
(* into segments and posts the segments one after the other.               *)
(***************************************************************************)
EXTENDS Integers, Sequences, FiniteSets, TLC

\* ------------------------------------------------------------------ bounds

\* Longest feed the fetch returns.
MaxFeedLen == 3
\* Largest publication time (epoch milliseconds) of a feed item.
MaxPubDate == 2
\* Largest number of pieces a content given to the segment loop is made of.
MaxBlocks == 3

\* -------------------------------------------------------- program constants

\* process.env.MAX_ITEMS
MAX_ITEMS == 2
\* the literal 280 of the segmenter
MaxWeightedLength == 280
\* let separator = '===='
Separator == <<"=", "=", "=", "=">>

\* ------------------------------------------------------------------ values

\* An optional value: <<>> is null/undefined, <<v>> is the value v.
Absent == <<>>
Some(v) == <<v>>

PubDates == (-1)..MaxPubDate
Checkpoints == {Absent} \cup {Some(v) : v \in PubDates}

\* Strings are sequences of characters; "W" is a character twitter-text
\* weighs 2 (a CJK character), every other character weighs 1.

\* The parsed items a feed may hold, without their publication time:
\* category is Absent when the item has no <category> element, media tells
\* whether it has a <media:content> element, content is its description
\* after htmlToText (empty, one segment, or two segments around a separator).
ItemShapes ==
    { [category |-> Absent, media |-> FALSE, content |-> <<"a">>],
      [category |-> Absent, media |-> FALSE,
       content |-> <<"a", "=", "=", "=", "=", "W">>],
      [category |-> Absent, media |-> TRUE, content |-> <<>>],
      [category |-> <<"news">>, media |-> TRUE,
       content |-> <<"a", "=", "=", "=", "=", "W">>],
      [category |-> <<"news", "NoCrossPost">>, media |-> TRUE,
       content |-> <<"a">>] }

Item(shape, pubDate) ==
    [pubDate |-> pubDate, category |-> shape.category,
     media |-> shape.media, content |-> shape.content]

\* The feeds the fetch may return: at most MaxFeedLen items, ordered from
\* newest to oldest as the handler assumes.
Feeds ==
    UNION { { f \in [1..n -> { Item(sh, p) : sh \in ItemShapes, p \in PubDates }] :
                \A i \in 1..(n - 1) : f[i].pubDate > f[i + 1].pubDate } :
            n \in 0..MaxFeedLen }

Min(a, b) == IF a < b THEN a ELSE b

\* ------------------------------------------------------- string functions

\* String.prototype.toLowerCase on the tags of the model.
ToLowerCase(s) ==
    CASE s = "NoCrossPost" -> "nocrosspost"
      [] s = "News" -> "news"
      [] OTHER -> s

\* String.prototype.substring(from, to), both indices clamped to the length.
Substring(s, from, to) == SubSeq(s, Min(from, Len(s)) + 1, Min(to, Len(s)))

\* substring(from) that starts one character too late.
SubstringFromNext(s, from) == SubSeq(s, Min(from, Len(s)) + 2, Len(s))

\* String.prototype.substring(from).
SubstringFrom(s, from) == SubSeq(s, Min(from, Len(s)) + 1, Len(s))

\* String.prototype.indexOf(sep): first 0-based position of sep, or -1.
IndexOf(s, sep) ==
    LET hits == { i \in 0..(Len(s) - Len(sep)) :
                    SubSeq(s, i + 1, i + Len(sep)) = sep }
    IN  IF hits = {} THEN -1
        ELSE CHOOSE i \in hits : \A j \in hits : i <= j

\* TwitterTextParser.parseTweet(s).weightedLength: 1 for every character,
\* and 1 more for every character of weight 2.
WeightedLength(s) ==
    Len(s) + Len(SelectSeq(s, LAMBDA c : c = "W"))

\* The candidate kept as it is, whatever it weighs.
NotShortened(potentialSegment) == potentialSegment

\* while (segmentLength > 280) drop the last character: the loop ends
\* after the first number of passes that leaves a candidate weighing at
\* most 280.
Shorten(potentialSegment) ==
    LET Dropped(k) ==
            Substring(potentialSegment, 0, Len(potentialSegment) - k)
        TooLong(k) == WeightedLength(Dropped(k)) > MaxWeightedLength
    IN  Dropped(CHOOSE k \in 0..Len(potentialSegment) :
                    /\ ~TooLong(k)
                    /\ \A j \in 0..(k - 1) : TooLong(j))

\* A pass that leaves the separator it cut at in the remaining content.
SegmentStepKeepsSeparator(remainingContent) ==
    LET separatorIndex == IndexOf(remainingContent, Separator)
    IN  IF separatorIndex >= 0 /\ separatorIndex < MaxWeightedLength
        THEN [segment |-> Substring(remainingContent, 0, separatorIndex),
              remaining |-> SubstringFrom(remainingContent, separatorIndex)]
        ELSE LET segment ==
                     Shorten(Substring(remainingContent, 0, MaxWeightedLength))
             IN  [segment |-> segment,
                  remaining |-> SubstringFrom(remainingContent, Len(segment))]

\* A pass that does not look for the separator at all.
SegmentStepByLengthOnly(remainingContent) ==
    LET segment == Shorten(Substring(remainingContent, 0, MaxWeightedLength))
    IN  [segment |-> segment,
         remaining |-> SubstringFrom(remainingContent, Len(segment))]

\* One pass of the while (remainingContent.length > 0) loop:
\* the segment pushed and the content that remains.
SegmentStep(remainingContent) ==
    LET separatorIndex == IndexOf(remainingContent, Separator)
    IN  IF separatorIndex >= 0 /\ separatorIndex < MaxWeightedLength
        THEN [segment |-> Substring(remainingContent, 0, separatorIndex),
              remaining |-> SubstringFrom(remainingContent,
                                          separatorIndex + Len(Separator))]
        ELSE LET segment ==
                     Shorten(Substring(remainingContent, 0, MaxWeightedLength))
             IN  [segment |-> segment,
                  remaining |->
                      IF separatorIndex = Len(segment)
                      THEN SubstringFrom(remainingContent,
                                         separatorIndex + Len(Separator))
                      ELSE SubstringFrom(remainingContent, Len(segment))]

\* contentSegments after the loop.
RECURSIVE ContentSegments(_)
ContentSegments(remainingContent) ==
    IF Len(remainingContent) > 0
    THEN LET step == SegmentStep(remainingContent)
         IN  <<step.segment>> \o ContentSegments(step.remaining)
    ELSE <<>>

\* ------------------------------------------------------------------- state

VARIABLES
    variant,                \* which handler runs: 1 (line 27) or 2 (line 158)
    feed,                   \* the items of the feed document, newest first
    stored,                 \* pubDate of 'last_processed_item' in the table
    pc,                     \* where the run is
    result,                 \* the promise handler returned
    error,                  \* the step whose error ended or marked the run
    lastProcessedPubDate,   \* let lastProcessedPubDate
    newProcessedPubDate,    \* let newProcessedPubDate
    latestItems,            \* const latestItems, as positions in feed
    postPromises,           \* const postPromises, one task per latest item
    sent,                   \* the axios.post calls issued, in order of issue
    puts,                   \* the values of the PutItemCommands issued
    storedBefore,           \* stored as it was when the run was invoked
    other,                  \* <<>>, or the state of one other run of handler
    seg                     \* the segment loop run on a content of its own

\* What a single run of handler leaves alone.
aux == <<storedBefore, other, seg>>

vars == <<variant, feed, stored, pc, result, error, lastProcessedPubDate,
          newProcessedPubDate, latestItems, postPromises, sent, puts, aux>>

\* -------------------------------------------------------- handler, pieces

\* !x for x null or a number
Falsy(x) == x = Absent \/ x[1] = 0

\* !lastProcessedPubDate || lastProcessedPubDate < pubDate
IsNew(last, pubDate) == Falsy(last) \/ last[1] < pubDate

\* The update without its comparison: the last item posted wins.
UpdateAlways(new, pubDate) == Some(pubDate)

\* if (!newProcessedPubDate || newProcessedPubDate < pubDate)
\*     newProcessedPubDate = pubDate;
UpdatePubDate(new, pubDate) ==
    IF Falsy(new) \/ new[1] < pubDate THEN Some(pubDate) ELSE new

\* The exclusion test without toLowerCase.
IsExcludedCaseSensitive(item) ==
    /\ item.category # Absent
    /\ \E i \in DOMAIN item.category : item.category[i] = "nocrosspost"

\* item.category && item.category.find(cat => cat.toLowerCase() === 'nocrosspost')
IsExcluded(item) ==
    /\ item.category # Absent
    /\ \E i \in DOMAIN item.category :
           ToLowerCase(item.category[i]) = "nocrosspost"

\* items.slice(0, MAX_ITEMS) in variant 1, items.slice(0, MAX_ITEMS).reverse()
\* in variant 2.
Reverse(s) == [i \in 1..Len(s) |-> s[Len(s) + 1 - i]]

LatestItems(v, items) ==
    LET head == [i \in 1..Min(MAX_ITEMS, Len(items)) |-> i]
    IN  IF v = 1 THEN head ELSE Reverse(head)

\* The axios.post of variant 1: one event, the media url or the placeholder.
PostV1(idx) ==
    [item |-> idx, seg |-> 1, text |-> feed[idx].content,
     media |-> IF feed[idx].media THEN Some("url")
               ELSE Some("no_image_card.png"),
     channel |-> "IFTTT_EVENT_NAME", st |-> "pending"]

\* The axios.post of variant 2 for segment k of the item.
PostV2(idx, segs, k, firstSegment) ==
    LET withMedia == firstSegment /\ feed[idx].media
    IN  [item |-> idx, seg |-> k, text |-> segs[k],
         media |-> IF withMedia THEN Some("url") ELSE Absent,
         channel |-> IF withMedia THEN "IFTTT_EVENT_NAME_WITH_IMAGE"
                     ELSE "IFTTT_EVENT_NAME",
         st |-> "pending"]

Settled(idx) ==
    [st |-> "fulfilled", item |-> idx, segs |-> <<>>, k |-> 0,
     firstSegment |-> TRUE]

Pending(idx, segs) ==
    [st |-> "pending", item |-> idx, segs |-> segs, k |-> 1,
     firstSegment |-> TRUE]

\* The async callback of latestItems.map for the item at position idx, run
\* up to its first await or its return; acc is what the callbacks of the
\* items before it left.
ItemStart(idx, acc) ==
    LET item == feed[idx]
        skip == [acc EXCEPT !.tasks = Append(@, Settled(idx))]
    IN  IF variant = 2 /\ IsExcluded(item) THEN skip
        ELSE IF ~IsNew(lastProcessedPubDate, item.pubDate) THEN skip
        ELSE IF variant = 1
        THEN [new |-> UpdatePubDate(acc.new, item.pubDate),
              tasks |-> Append(acc.tasks, Pending(idx, <<item.content>>)),
              posts |-> Append(acc.posts, PostV1(idx))]
        ELSE LET segs == ContentSegments(item.content)
             IN  IF Len(segs) = 0 THEN skip
                 ELSE [new |-> UpdatePubDate(acc.new, item.pubDate),
                       tasks |-> Append(acc.tasks, Pending(idx, segs)),
                       posts |-> Append(acc.posts,
                                        PostV2(idx, segs, 1, TRUE))]

\* latestItems.map(async item => ...)
RECURSIVE MapItems(_, _, _)
MapItems(its, i, acc) ==
    IF i > Len(its) THEN acc
    ELSE MapItems(its, i + 1, ItemStart(its[i], acc))

\* The loop with the rejection of a post swallowed.
ContinuesAfterFailure(ok, t) == t.k < Len(t.segs)

\* Whether the for loop of a task goes on to its next segment once the
\* awaited axios.post has settled: a rejected post throws out of the loop.
Continues(ok, t) == ok /\ t.k < Len(t.segs)

\* Promise.race in place of Promise.allSettled: the first task to settle
\* fulfils it.
AnySettled(tasks) ==
    tasks = <<>> \/ \E i \in DOMAIN tasks : tasks[i].st # "pending"

\* Promise.allSettled(postPromises) is fulfilled
AllSettled(tasks) == \A i \in DOMAIN tasks : tasks[i].st # "pending"

\* Position in sent of the post task t awaits.
Awaited(t) ==
    CHOOSE j \in DOMAIN sent :
        sent[j].item = t.item /\ sent[j].seg = t.k /\ sent[j].st = "pending"

\* The segment loop before it is given a content.
SegIdle ==
    [content |-> <<>>, remainingContent |-> <<>>, contentSegments |-> <<>>,
     cuts |-> <<>>]

\* ----------------------------------------------------------------- actions

Init ==
    /\ variant \in {1, 2}
    /\ feed \in Feeds
    /\ stored \in Checkpoints
    /\ pc = "Idle"
    /\ result = "pending"
    /\ error = "none"
    /\ lastProcessedPubDate = Absent
    /\ newProcessedPubDate = Absent
    /\ latestItems = <<>>
    /\ postPromises = <<>>
    /\ sent = <<>>
    /\ puts = <<>>
    /\ storedBefore = stored
    /\ other = <<>>
    /\ seg = SegIdle

\* handler(event): axios.get(RSS_FEED_URL) is issued.
Invoke ==
    /\ pc = "Idle"
    /\ pc' = "FetchingFeed"
    /\ UNCHANGED <<variant, feed, error, stored, result, lastProcessedPubDate,
                   newProcessedPubDate, latestItems, postPromises, sent, puts>>
    /\ UNCHANGED aux

\* The feed arrives; the GetItemCommand is sent.
FetchOk ==
    /\ pc = "FetchingFeed"
    /\ pc' = "LoadingCheckpoint"
    /\ UNCHANGED <<variant, feed, error, stored, result, lastProcessedPubDate,
                   newProcessedPubDate, latestItems, postPromises, sent, puts>>
    /\ UNCHANGED aux

\* axios.get rejects: the await is outside the try block.
FetchFails ==
    /\ pc = "FetchingFeed"
    /\ pc' = "Failed"
    /\ result' = "rejected"
    /\ error' = "fetch"
    /\ UNCHANGED <<variant, feed, stored, lastProcessedPubDate,
                   newProcessedPubDate, latestItems, postPromises, sent, puts>>
    /\ UNCHANGED aux

\* The stored item arrives; parseStringPromise is called.
LoadOk ==
    /\ pc = "LoadingCheckpoint"
    /\ lastProcessedPubDate' = stored
    /\ newProcessedPubDate' = stored
    /\ pc' = "Parsing"
    /\ UNCHANGED <<variant, feed, error, stored, result, latestItems, postPromises,
                   sent, puts>>
    /\ UNCHANGED aux

\* ddb.send(GetItemCommand) rejects: the await is outside the try block.
LoadFails ==
    /\ pc = "LoadingCheckpoint"
    /\ pc' = "Failed"
    /\ result' = "rejected"
    /\ error' = "load"
    /\ UNCHANGED <<variant, feed, stored, lastProcessedPubDate,
                   newProcessedPubDate, latestItems, postPromises, sent, puts>>
    /\ UNCHANGED aux

\* A parse error caught by a try block that ends before the allSettled
\* chain: the run goes on to the commit with no task.
ParseFailsThenCommits ==
    /\ pc = "Parsing"
    /\ pc' = "Dispatching"
    /\ error' = "parse"
    /\ UNCHANGED <<variant, feed, stored, result, lastProcessedPubDate,
                   newProcessedPubDate, latestItems, postPromises, sent, puts>>
    /\ UNCHANGED aux

\* parseStringPromise rejects, or the channel has no item and items.slice
\* throws a TypeError: the catch block logs it and the handler returns.
ParseFails ==
    /\ pc = "Parsing"
    /\ pc' = "Failed"
    /\ result' = "fulfilled"
    /\ error' = "parse"
    /\ UNCHANGED <<variant, feed, stored, lastProcessedPubDate,
                   newProcessedPubDate, latestItems, postPromises, sent, puts>>
    /\ UNCHANGED aux

\* The document is parsed; the map runs every callback up to its first
\* await and the handler returns the allSettled chain.
ParseOk ==
    /\ pc = "Parsing"
    /\ Len(feed) > 0
    /\ LET its == LatestItems(variant, feed)
           out == MapItems(its, 1, [new |-> newProcessedPubDate,
                                    tasks |-> <<>>, posts |-> <<>>])
       IN  /\ latestItems' = its
           /\ newProcessedPubDate' = out.new
           /\ postPromises' = out.tasks
           /\ sent' = out.posts
    /\ pc' = "Dispatching"
    /\ UNCHANGED <<variant, feed, error, stored, result, lastProcessedPubDate, puts>>
    /\ UNCHANGED aux

\* The axios.post task i awaits settles; the task goes on to its next
\* segment, returns, or throws.
PostSettles(i, ok) ==
    /\ pc \in {"Dispatching", "CommittingCheckpoint", "Done"}
    /\ i \in DOMAIN postPromises
    /\ postPromises[i].st = "pending"
    /\ LET t == postPromises[i]
           j == Awaited(t)
           done == [sent EXCEPT ![j].st = IF ok THEN "ok" ELSE "failed"]
       IN  IF Continues(ok, t)
           THEN /\ newProcessedPubDate' =
                       UpdatePubDate(newProcessedPubDate, feed[t.item].pubDate)
                /\ sent' = Append(done, PostV2(t.item, t.segs, t.k + 1, FALSE))
                /\ postPromises' = [postPromises EXCEPT
                                        ![i].k = t.k + 1,
                                        ![i].firstSegment = FALSE]
           ELSE /\ sent' = done
                /\ postPromises' = [postPromises EXCEPT
                                        ![i].st = IF ok THEN "fulfilled"
                                                  ELSE "rejected"]
                /\ UNCHANGED newProcessedPubDate
    /\ UNCHANGED <<variant, feed, stored, pc, result, error,
                   lastProcessedPubDate, latestItems, puts>>
    /\ UNCHANGED aux

PostOk == \E i \in DOMAIN postPromises : PostSettles(i, TRUE)

PostFails == \E i \in DOMAIN postPromises : PostSettles(i, FALSE)

\* The then callback of Promise.allSettled: the PutItemCommand is sent.
Commit ==
    /\ pc = "Dispatching"
    /\ AllSettled(postPromises)
    /\ newProcessedPubDate # Absent
    /\ puts' = Append(puts, newProcessedPubDate[1])
    /\ pc' = "CommittingCheckpoint"
    /\ UNCHANGED <<variant, feed, error, stored, result, lastProcessedPubDate,
                   newProcessedPubDate, latestItems, postPromises, sent>>
    /\ UNCHANGED aux

\* The then callback with newProcessedPubDate null: toString throws a
\* TypeError, the catch callback swallows it.
CommitThrows ==
    /\ pc = "Dispatching"
    /\ AllSettled(postPromises)
    /\ newProcessedPubDate = Absent
    /\ pc' = "Done"
    /\ result' = "fulfilled"
    /\ error' = "commit"
    /\ UNCHANGED <<variant, feed, stored, lastProcessedPubDate,
                   newProcessedPubDate, latestItems, postPromises, sent, puts>>
    /\ UNCHANGED aux

\* A conditional write: the table stores the item only when the table holds
\* nothing or an older value.
PutOkIfNewer ==
    /\ pc = "CommittingCheckpoint"
    /\ stored' = IF stored = Absent \/ stored[1] < puts[Len(puts)]
                 THEN Some(puts[Len(puts)])
                 ELSE stored
    /\ pc' = "Done"
    /\ result' = "fulfilled"
    /\ UNCHANGED <<variant, feed, error, lastProcessedPubDate, newProcessedPubDate,
                   latestItems, postPromises, sent, puts>>
    /\ UNCHANGED aux

\* The table stores the item.
PutOk ==
    /\ pc = "CommittingCheckpoint"
    /\ stored' = Some(puts[Len(puts)])
    /\ pc' = "Done"
    /\ result' = "fulfilled"
    /\ UNCHANGED <<variant, feed, error, lastProcessedPubDate, newProcessedPubDate,
                   latestItems, postPromises, sent, puts>>
    /\ UNCHANGED aux

\* The allSettled chain without its catch callback: the rejection of the
\* PutItemCommand rejects the promise handler returned.
PutFailsRejects ==
    /\ pc = "CommittingCheckpoint"
    /\ pc' = "Done"
    /\ result' = "rejected"
    /\ error' = "put"
    /\ UNCHANGED <<variant, feed, stored, lastProcessedPubDate,
                   newProcessedPubDate, latestItems, postPromises, sent, puts>>
    /\ UNCHANGED aux

\* ddb.send(PutItemCommand) rejects: the catch callback swallows it.
PutFails ==
    /\ pc = "CommittingCheckpoint"
    /\ pc' = "Done"
    /\ result' = "fulfilled"
    /\ error' = "put"
    /\ UNCHANGED <<variant, feed, stored, lastProcessedPubDate,
                   newProcessedPubDate, latestItems, postPromises, sent, puts>>
    /\ UNCHANGED aux

Next ==
    \/ Invoke
    \/ FetchOk
    \/ FetchFails
    \/ LoadOk
    \/ LoadFails
    \/ ParseOk
    \/ ParseFails
    \/ PostOk
    \/ PostFails
    \/ Commit
    \/ CommitThrows
    \/ PutOk
    \/ PutFails

Spec == Init /\ [][Next]_vars

\* ------------------------------------------------- one run after the other

\* The state of the run in progress, as one value.
RunState ==
    [feed |-> feed, pc |-> pc, result |-> result, error |-> error,
     lastProcessedPubDate |-> lastProcessedPubDate,
     newProcessedPubDate |-> newProcessedPubDate,
     latestItems |-> latestItems, postPromises |-> postPromises,
     sent |-> sent, puts |-> puts, storedBefore |-> storedBefore]

\* The state of a run of handler that has not started, on feed document f
\* with c in the table.
FreshRun(f, c) ==
    [feed |-> f, pc |-> "Idle", result |-> "pending", error |-> "none",
     lastProcessedPubDate |-> Absent, newProcessedPubDate |-> Absent,
     latestItems |-> <<>>, postPromises |-> <<>>, sent |-> <<>>,
     puts |-> <<>>, storedBefore |-> c]

\* The run in progress becomes r.
Resume(r) ==
    /\ feed' = r.feed
    /\ pc' = r.pc
    /\ result' = r.result
    /\ error' = r.error
    /\ lastProcessedPubDate' = r.lastProcessedPubDate
    /\ newProcessedPubDate' = r.newProcessedPubDate
    /\ latestItems' = r.latestItems
    /\ postPromises' = r.postPromises
    /\ sent' = r.sent
    /\ puts' = r.puts
    /\ storedBefore' = r.storedBefore

\* The scheduler invokes handler again once the promise of the first run
\* has settled; the feed document is the same.  other keeps the first run.
NextRun ==
    /\ other = <<>>
    /\ result # "pending"
    /\ other' = <<RunState>>
    /\ Resume(FreshRun(feed, stored))
    /\ UNCHANGED <<variant, stored, seg>>

NextRuns == Next \/ NextRun

\* Both runs get the same feed document, of which they read the first
\* MAX_ITEMS items only: the feeds with no item after those.
InitRuns == Init /\ Len(feed) <= MAX_ITEMS

SpecRuns == InitRuns /\ [][NextRuns]_vars

\* ------------------------------------------------- two runs that overlap

\* The feed documents a later fetch can return: the same document, or the
\* document with one newer item in front.
LaterFeeds(f) ==
    {f} \cup { <<Item(sh, p)>> \o f :
                  sh \in ItemShapes,
                  p \in { q \in PubDates : \A i \in DOMAIN f : q > f[i].pubDate } }

\* Two invocations of handler, neither started: the one in progress and
\* the one in other.  Nothing keeps the scheduler from invoking handler
\* while a run is at an await.
InitOverlap ==
    /\ variant \in {1, 2}
    /\ feed \in { f \in Feeds : Len(f) < MAX_ITEMS }
    /\ stored \in Checkpoints
    /\ pc = "Idle"
    /\ result = "pending"
    /\ error = "none"
    /\ lastProcessedPubDate = Absent
    /\ newProcessedPubDate = Absent
    /\ latestItems = <<>>
    /\ postPromises = <<>>
    /\ sent = <<>>
    /\ puts = <<>>
    /\ storedBefore = stored
    /\ \E f \in LaterFeeds(feed) : other = <<FreshRun(f, stored)>>
    /\ seg = SegIdle

\* The run in progress is at an await and the event loop goes on with the
\* other run.
Switch ==
    /\ other # <<>>
    /\ other' = <<RunState>>
    /\ Resume(other[1])
    /\ UNCHANGED <<variant, stored, seg>>

NextOverlap == Next \/ Switch

SpecOverlap == InitOverlap /\ [][NextOverlap]_vars

\* ------------------------------------------------------- the segment loop

\* The string of n characters c.
Rep(c, n) == [i \in 1..n |-> c]

\* The pieces the contents are made of: one character of weight 1, one of
\* weight 2, one character of the separator, the separator, 20 characters
\* of weight 1, 20 of weight 2, and 280 of weight 1.
Blocks ==
    { <<"a">>, <<"W">>, <<"=">>, Separator, Rep("a", 20), Rep("W", 20),
      Rep("a", MaxWeightedLength) }

RECURSIVE Concat(_)
Concat(pieces) ==
    IF pieces = <<>> THEN <<>> ELSE Head(pieces) \o Concat(Tail(pieces))

\* The contents: at most MaxBlocks pieces, one after the other.
SegContents ==
    { Concat(pieces) :
        pieces \in UNION { [1..n -> Blocks] : n \in 0..MaxBlocks } }

\* Everything of handler at rest, and the segment loop about to start on
\* a content.
InitSeg ==
    /\ variant = 2
    /\ feed = <<>>
    /\ stored = Absent
    /\ pc = "Idle"
    /\ result = "pending"
    /\ error = "none"
    /\ lastProcessedPubDate = Absent
    /\ newProcessedPubDate = Absent
    /\ latestItems = <<>>
    /\ postPromises = <<>>
    /\ sent = <<>>
    /\ puts = <<>>
    /\ storedBefore = Absent
    /\ other = <<>>
    /\ \E content \in SegContents :
           seg = [SegIdle EXCEPT !.content = content,
                                 !.remainingContent = content]

\* One pass of while (remainingContent.length > 0): the segment is pushed;
\* cuts records whether the pass cut at a separator found before position
\* 280, and how many characters it dropped between segment and rest.
Cut ==
    /\ Len(seg.remainingContent) > 0
    /\ LET step == SegmentStep(seg.remainingContent)
           separatorIndex == IndexOf(seg.remainingContent, Separator)
       IN  seg' = [seg EXCEPT
                     !.remainingContent = step.remaining,
                     !.contentSegments = Append(@, step.segment),
                     !.cuts = Append(@,
                         [bySeparator |-> /\ separatorIndex >= 0
                                          /\ separatorIndex < MaxWeightedLength,
                          dropped |-> Len(seg.remainingContent)
                                      - Len(step.segment)
                                      - Len(step.remaining)])]
    /\ UNCHANGED <<variant, feed, stored, pc, result, error,
                   lastProcessedPubDate, newProcessedPubDate, latestItems,
                   postPromises, sent, puts, storedBefore, other>>

NextSeg == Cut

SpecSeg == InitSeg /\ [][NextSeg]_vars

\* The loop is synchronous code: it keeps running while it has a pass to do.
SpecSegFair == SpecSeg /\ WF_vars(Cut)

\* ------------------------------------------------------------------ claims

Range(f) == { f[i] : i \in DOMAIN f }

MaxOf(S) == CHOOSE m \in S : \A x \in S : x <= m

\* The publication time of the item a post belongs to.
PubOf(post) == feed[post.item].pubDate

\* The items at least one post was issued for.
Dispatched == { sent[j].item : j \in DOMAIN sent }

\* The checkpoint the run read, as a set of at most one number.
LastRead == IF lastProcessedPubDate = Absent THEN {}
            ELSE {lastProcessedPubDate[1]}

\* The item carries the exclusion tag in some spelling.
Tagged(item) ==
    /\ item.category # Absent
    /\ \E i \in DOMAIN item.category :
           item.category[i] \in {"nocrosspost", "NoCrossPost", "NOCROSSPOST"}

\* The map has run.
Mapped == pc \in {"Dispatching", "CommittingCheckpoint", "Done"}

\* C1: no post is issued for an item whose publication time is not after
\* the checkpoint the run read, whenever a checkpoint was read (0 included).
C1_NoPostAtOrBeforeCheckpoint ==
    \A j \in DOMAIN sent :
        \A c \in LastRead : PubOf(sent[j]) > c

\* C2: every value a run writes as checkpoint is at least the checkpoint
\* it read.
C2_WriteNotBelowRead ==
    \A j \in DOMAIN puts :
        \A c \in LastRead : puts[j] >= c

C4_FirstSegmentCarriesMedia ==
    (variant = 2 /\ Mapped) =>
        /\ \A i \in Range(latestItems) :
               ( /\ feed[i].media
                 /\ ~Tagged(feed[i])
                 /\ \A c \in LastRead : feed[i].pubDate > c )
               => /\ \E j \in DOMAIN sent :
                        /\ sent[j].item = i
                        /\ sent[j].seg = 1
                        /\ sent[j].media # Absent
                        /\ sent[j].channel = "IFTTT_EVENT_NAME_WITH_IMAGE"
                  /\ \A j \in DOMAIN sent :
                        (sent[j].item = i /\ sent[j].seg # 1) =>
                            /\ sent[j].media = Absent
                            /\ sent[j].channel = "IFTTT_EVENT_NAME"
        /\ \A j \in DOMAIN sent :
               ~feed[sent[j].item].media =>
                   /\ sent[j].media = Absent
                   /\ sent[j].channel = "IFTTT_EVENT_NAME"

\* C5: a checkpoint write is issued at most once per run, and only when
\* every item task has settled and no post is pending.
C5_WriteAfterAllSettled ==
    /\ Len(puts) <= 1
    /\ puts # <<>> =>
           /\ \A i \in DOMAIN postPromises :
                  postPromises[i].st \in {"fulfilled", "rejected"}
           /\ \A j \in DOMAIN sent : sent[j].st \in {"ok", "failed"}

\* The write is issued after two tasks settled, one rejected and one
\* fulfilled after its second segment.
C5_Witness ==
    /\ puts # <<>>
    /\ \E i, k \in DOMAIN postPromises :
           /\ postPromises[i].st = "rejected"
           /\ postPromises[k].st = "fulfilled"
           /\ postPromises[k].k = 2

\* C6: when the run is over and a post of an item has failed, the
\* checkpoint write was issued with a value at least that item's
\* publication time, and every other selected item was posted.
C6_FailedPostStillCommitted ==
    (variant = 2 /\ pc = "Done") =>
        \A j \in DOMAIN sent :
            sent[j].st = "failed" =>
                /\ puts # <<>>
                /\ puts[1] >= PubOf(sent[j])
                /\ \A i \in Range(latestItems) :
                       ( /\ ~Tagged(feed[i])
                         /\ feed[i].content # <<>>
                         /\ \A c \in LastRead : feed[i].pubDate > c )
                       => i \in Dispatched

\* C7: the post of segment k+1 of an item is issued only after the post of
\* its segment k succeeded, no segment follows a failed one, an item has at
\* most one post pending, and post k carries the k-th segment.
C7_SegmentsInOrder ==
    variant = 2 =>
        \A j \in DOMAIN sent :
            /\ sent[j].seg > 1 =>
                   \E h \in 1..(j - 1) :
                       /\ sent[h].item = sent[j].item
                       /\ sent[h].seg = sent[j].seg - 1
                       /\ sent[h].st = "ok"
            /\ sent[j].st = "failed" =>
                   \A h \in DOMAIN sent :
                       sent[h].item = sent[j].item => sent[h].seg <= sent[j].seg
            /\ sent[j].st = "pending" =>
                   \A h \in DOMAIN sent :
                       (sent[h].item = sent[j].item /\ h # j) =>
                           sent[h].st # "pending"
            /\ sent[j].text =
                   ContentSegments(feed[sent[j].item].content)[sent[j].seg]

\* One item is at its second segment while the first segment of another
\* item of two segments has failed.
C7_Witness ==
    /\ variant = 2
    /\ \E j, h \in DOMAIN sent :
           /\ sent[j].seg = 2
           /\ sent[h].item # sent[j].item
           /\ sent[h].st = "failed"
           /\ sent[h].seg = 1
           /\ Len(ContentSegments(feed[sent[h].item].content)) = 2

\* C8: of two selected items the older has its first post issued first.
C8_OldestFirst ==
    \A j, h \in DOMAIN sent :
        ( /\ sent[j].seg = 1
          /\ sent[h].seg = 1
          /\ PubOf(sent[j]) < PubOf(sent[h]) )
        => j < h

\* C9: no post is ever issued for an item carrying the exclusion tag.
C9_TaggedNeverPosted ==
    variant = 2 => \A j \in DOMAIN sent : ~Tagged(feed[sent[j].item])

\* A run with no checkpoint considered a tagged item next to one it posted
\* and is over.
C9_Witness ==
    /\ variant = 2
    /\ pc = "Done"
    /\ lastProcessedPubDate = Absent
    /\ sent # <<>>
    /\ \E i \in Range(latestItems) : Tagged(feed[i])

\* C10: the promise handler returned is never rejected.
C10_NeverRejected == result # "rejected"

\* C11: a run that failed at the feed fetch, the checkpoint load or the
\* feed parsing has issued no checkpoint write and no post, and the stored
\* checkpoint is what it was when the run was invoked.
C11_FailedRunLeavesNoTrace ==
    error \in {"fetch", "load", "parse"} =>
        /\ puts = <<>>
        /\ sent = <<>>
        /\ stored = storedBefore

\* The parsing of a feed with items failed in a run that had read a
\* checkpoint older than the newest item.
C11_Witness ==
    /\ error = "parse"
    /\ pc = "Failed"
    /\ Len(feed) > 0
    /\ lastProcessedPubDate # Absent
    /\ lastProcessedPubDate[1] < feed[1].pubDate

\* Every segment of the item has been posted with success.
Delivered(i) ==
    \A n \in 1..Len(ContentSegments(feed[i].content)) :
        \E j \in DOMAIN sent :
            sent[j].item = i /\ sent[j].seg = n /\ sent[j].st = "ok"

\* C17: at every point of the dispatch, an item whose segments are all
\* delivered is older than every selected item with a segment not yet
\* delivered.
C17_DeliveredAreOldest ==
    (variant = 2 /\ Mapped) =>
        \A i, k \in Dispatched :
            (Delivered(i) /\ ~Delivered(k)) =>
                feed[i].pubDate < feed[k].pubDate

\* The items of the first posts of a log, in order of issue.
FirstPosts(log) ==
    LET first == SelectSeq(log, LAMBDA e : e.seg = 1)
    IN  [j \in 1..Len(first) |-> first[j].item]

\* C12: after a run that ended with a successful checkpoint write, the next
\* run over the same feed issues no post.
C12_NoPostAfterCommit ==
    ( /\ other # <<>>
      /\ other[1].pc = "Done"
      /\ other[1].error = "none" )
    => sent = <<>>

\* C13: when the checkpoint write of a run failed, the promise of the run
\* is fulfilled, the next run is invoked with the stored checkpoint the
\* failed run was invoked with, and once it has mapped the same feed it has
\* issued the first posts of the same items in the same order.
C13_FailedWriteRunsAgain ==
    (other # <<>> /\ other[1].error = "put") =>
        /\ other[1].result = "fulfilled"
        /\ storedBefore = other[1].storedBefore
        /\ Mapped => FirstPosts(sent) = FirstPosts(other[1].sent)

\* The run after a failed checkpoint write is over and has posted two
\* items again, one of them in two segments.
C13_Witness ==
    /\ other # <<>>
    /\ other[1].error = "put"
    /\ pc = "Done"
    /\ Len(FirstPosts(sent)) = 2
    /\ Len(sent) = 3
    /\ Len(other[1].sent) >= 2

\* The segments pushed so far, the separator put back after every segment
\* whose pass dropped it.
RECURSIVE Rebuilt(_, _)
Rebuilt(segments, cuts) ==
    IF segments = <<>> THEN <<>>
    ELSE Head(segments)
         \o (IF Head(cuts).dropped = Len(Separator) THEN Separator ELSE <<>>)
         \o Rebuilt(Tail(segments), Tail(cuts))

\* C14: at every point of the segment loop, the segments pushed so far, in
\* order, with the separator put back wherever a pass consumed one, followed
\* by the remaining content, are the content: a pass drops either nothing
\* or one separator, and no other character is lost, duplicated or
\* reordered; "a====W" gives ["a", "W"].
C14_SegmentsRebuildContent ==
    /\ Len(seg.cuts) = Len(seg.contentSegments)
    /\ \A k \in DOMAIN seg.cuts : seg.cuts[k].dropped \in {0, Len(Separator)}
    /\ Rebuilt(seg.contentSegments, seg.cuts) \o seg.remainingContent
           = seg.content
    /\ (seg.content = <<"a">> \o Separator \o <<"W">>
            /\ seg.remainingContent = <<>>)
           => seg.contentSegments = << <<"a">>, <<"W">> >>

\* The loop has ended on "a====W", having consumed the separator.
C14_Witness ==
    /\ seg.content = <<"a">> \o Separator \o <<"W">>
    /\ seg.remainingContent = <<>>
    /\ Len(seg.contentSegments) = 2
    /\ seg.cuts[1].dropped = Len(Separator)

\* C15: every segment pushed by a pass that did not cut at a separator found
\* before position 280 weighs at most 280 and has at most 280 characters;
\* 300 characters of weight 1 without separator give two segments, of 280
\* and of 20 characters.
C15_SegmentWithinBound ==
    /\ \A k \in DOMAIN seg.contentSegments :
           ~seg.cuts[k].bySeparator =>
               /\ WeightedLength(seg.contentSegments[k]) <= MaxWeightedLength
               /\ Len(seg.contentSegments[k]) <= MaxWeightedLength
    /\ (seg.content = Rep("a", MaxWeightedLength + 20)
            /\ seg.remainingContent = <<>>)
           => seg.contentSegments
                  = << Rep("a", MaxWeightedLength), Rep("a", 20) >>

\* The loop has ended on 300 characters of weight 1, both passes having cut
\* by length.
C15_Witness ==
    /\ seg.content = Rep("a", MaxWeightedLength + 20)
    /\ seg.remainingContent = <<>>
    /\ Len(seg.contentSegments) = 2
    /\ Len(seg.contentSegments[1]) = MaxWeightedLength
    /\ Len(seg.contentSegments[2]) = 20
    /\ \A k \in DOMAIN seg.cuts : ~seg.cuts[k].bySeparator

\* C16: the segment loop ends on every content: every pass leaves a
\* remaining content strictly shorter than the one it started from (the
\* shortening loop inside it having ended), and the remaining content
\* eventually is empty.
C16_LoopTerminates ==
    /\ [][Len(seg'.remainingContent) < Len(seg.remainingContent)]_vars
    /\ <>(seg.remainingContent = <<>>)

\* The loop has ended after three passes on a content longer than 280
\* characters, one pass having shortened its candidate by weight.
C16_Witness ==
    /\ Len(seg.content) > MaxWeightedLength
    /\ seg.remainingContent = <<>>
    /\ Len(seg.contentSegments) >= 3
    /\ \E k \in DOMAIN seg.contentSegments :
           /\ ~seg.cuts[k].bySeparator
           /\ Len(seg.contentSegments[k]) < MaxWeightedLength
           /\ WeightedLength(seg.contentSegments[k]) = MaxWeightedLength

\* C18: no segment pushed by the loop is the separator "====", whether the
\* content has adjacent separators, starts or ends with one, or has one
\* starting right where a cut by length ends.
C18_SeparatorNeverASegment ==
    \A k \in DOMAIN seg.contentSegments : seg.contentSegments[k] # Separator

\* The loop has ended on a content where a separator starts right at the
\* end of a segment that a pass cut by length, and that pass consumed it.
C18_Witness ==
    /\ seg.remainingContent = <<>>
    /\ \E k \in DOMAIN seg.cuts :
           /\ ~seg.cuts[k].bySeparator
           /\ seg.cuts[k].dropped = Len(Separator)

\* C19: every segment pushed by the loop, and so every value1 posted, has at
\* least one character, also when the content begins with the separator or
\* has two adjacent separators.
C19_EverySegmentNonEmpty ==
    \A k \in DOMAIN seg.contentSegments : Len(seg.contentSegments[k]) >= 1

\* The publishedAt of the items a run with feed document f and log of posts
\* log has sent.
SentDates(f, log) == { f[log[j].item].pubDate : j \in DOMAIN log }

\* C20: nothing protects the checkpoint from overlapping runs: a run never
\* reads the checkpoint again after its load, and its write stores the value
\* it computed whatever the table holds by then.  So the state of
\* C20_Witness is reachable: a run overwrites the checkpoint with a value
\* smaller than the one the other run wrote, and both have sent one item.
C20_WriteIgnoresOtherRun ==
    /\ [][(other' = other /\ pc \in {"Dispatching", "CommittingCheckpoint"})
             => lastProcessedPubDate' = lastProcessedPubDate]_vars
    /\ [][(other' = other /\ pc = "CommittingCheckpoint" /\ pc' = "Done"
              /\ error' # "put")
             => stored' = newProcessedPubDate]_vars

\* Both runs have read the same checkpoint and written theirs; the run in
\* progress wrote last, a positive value smaller than the one the other run
\* had written, and one item was sent by both.
C20_Witness ==
    /\ other # <<>>
    /\ pc = "Done" /\ error = "none" /\ puts # <<>>
    /\ other[1].pc = "Done" /\ other[1].error = "none"
    /\ other[1].puts # <<>>
    /\ lastProcessedPubDate = other[1].lastProcessedPubDate
    /\ ~Falsy(lastProcessedPubDate)
    /\ stored = Some(puts[Len(puts)])
    /\ puts[Len(puts)] > 0
    /\ puts[Len(puts)] < other[1].puts[Len(other[1].puts)]
    /\ SentDates(feed, sent) \cap SentDates(other[1].feed, other[1].sent) # {}

====
